---- MODULE Spec2Model ----
(***************************************************************************)
(* Model of the QGIS processing script "Prorata surfacique (somme)"        *)
(* (src/qgis-toolbox/toolbox_prorata_surfacique_sum.py).                   *)
(*                                                                         *)
(* Numbers: a Python float is modelled by the exact rational it stands     *)
(* for, a pair <<n, d>> in lowest terms with d > 0.                        *)
(* Geometry: the plane is a strip of NumCells closed unit cells; a polygon *)
(* is a set of cells, its area the number of cells; two polygons intersect *)
(* when they share a cell or a cell border (closed sets), as GEOS does.    *)
(* Text: a Python str is a sequence of one-character strings.              *)
(***************************************************************************)
EXTENDS Integers, Sequences, FiniteSets, TLC

VARIABLES
    \* _safe_float harness
    value, float_out,
    \* prepareOutputFields harness
    schema_in, req_fields, out_fields, out_again,
    \* computeProrata harness
    feat, layer, fields, prorata,
    \* processAlgorithm run
    pc, input_layer, inter_layer, fields_to_prorate, feedback, sink_ok,
    canceled, i, nb_entites, last_progress, sink, infos, progress_log,
    polls, started, result

fvars == <<value, float_out>>
svars == <<schema_in, req_fields, out_fields, out_again>>
pvars == <<feat, layer, fields, prorata>>
dvars == <<pc, input_layer, inter_layer, fields_to_prorate, feedback, sink_ok,
           canceled, i, nb_entites, last_progress, sink, infos, progress_log,
           polls, started, result>>
vars == <<fvars, svars, pvars, dvars>>

-----------------------------------------------------------------------------
(* Bounds of the model *)

MaxStrLen == 3
MaxSchemaLen == 2
MaxFields == 2
NumCells == 5
MaxSources == 2
MaxTargets == 3

-----------------------------------------------------------------------------
(* Exact rational arithmetic standing for Python float arithmetic *)

Abs(n) == IF n < 0 THEN -n ELSE n

RECURSIVE Gcd(_, _)
Gcd(a, b) == IF b = 0 THEN a ELSE Gcd(b, a % b)

Rat(n, d) ==
    LET g == Gcd(Abs(n), Abs(d))
        s == IF d < 0 THEN -1 ELSE 1
    IN  <<(s * n) \div g, (s * d) \div g>>

Zero == <<0, 1>>
RAdd(x, y) == Rat(x[1] * y[2] + y[1] * x[2], x[2] * y[2])
RMul(x, y) == Rat(x[1] * y[1], x[2] * y[2])
RDivInt(x, n) == Rat(x[1], x[2] * n)
RMulInt(x, n) == Rat(x[1] * n, x[2])

RECURSIVE Pow10(_)
Pow10(k) == IF k = 0 THEN 1 ELSE 10 * Pow10(k - 1)

\* Python round(x): nearest integer, a tie goes to the even one
PyRound(x) ==
    LET n == x[1]
        d == x[2]
        q == n \div d
        r2 == 2 * (n % d)
    IN  IF r2 < d THEN q
        ELSE IF r2 > d THEN q + 1
        ELSE IF q % 2 = 0 THEN q ELSE q + 1

\* Python round(x, ndigits)
PyRoundDigits(x, ndigits) ==
    Rat(PyRound(RMulInt(x, Pow10(ndigits))), Pow10(ndigits))

-----------------------------------------------------------------------------
(* Raw attribute values and Python's conversions of them *)

None == [kind |-> "none"]
PyInt(n) == [kind |-> "int", v |-> n]
PyFloatVal(r) == [kind |-> "float", v |-> r]
PyStr(s) == [kind |-> "str", s |-> s]
\* a QVariant: toDouble() returns the pair (d, ok)
QVariant(d, ok) == [kind |-> "variant", d |-> d, ok |-> ok]
\* a value that is neither a number, a str nor a variant (a Python list)
PyList == [kind |-> "list"]

Digits == <<"0", "1", "2", "3", "4", "5", "6", "7", "8", "9">>
IsDigit(c) == \E k \in 1..Len(Digits) : Digits[k] = c
DigitVal(c) == (CHOOSE k \in 1..Len(Digits) : Digits[k] = c) - 1

RECURSIVE DigitsValue(_)
DigitsValue(s) ==
    IF s = <<>> THEN 0
    ELSE 10 * DigitsValue(SubSeq(s, 1, Len(s) - 1)) + DigitVal(s[Len(s)])

\* float(str) on a decimal literal: [sign] digits [. [digits]] | [sign] . digits
\* (exponents, inf, nan, underscores and blanks are outside the alphabet used)
ParseFloat(s) ==
    LET signed == s # <<>> /\ s[1] \in {"-", "+"}
        body == IF signed THEN Tail(s) ELSE s
        dots == {k \in 1..Len(body) : body[k] = "."}
        digs == SelectSeq(body, IsDigit)
        okay == /\ \A k \in 1..Len(body) : IsDigit(body[k]) \/ body[k] = "."
                /\ Cardinality(dots) <= 1
                /\ Len(digs) >= 1
        decimals == IF dots = {} THEN 0
                    ELSE Len(body) - (CHOOSE k \in dots : TRUE)
        mag == Rat(DigitsValue(digs), Pow10(decimals))
    IN  IF ~okay THEN [exc |-> "ValueError"]
        ELSE [exc |-> "none",
              v |-> IF signed /\ s[1] = "-" THEN Rat(-mag[1], mag[2]) ELSE mag]

\* float(value)
BuiltinFloat(v) ==
    CASE v.kind = "int" -> [exc |-> "none", v |-> Rat(v.v, 1)]
      [] v.kind = "float" -> [exc |-> "none", v |-> v.v]
      [] v.kind = "str" -> ParseFloat(v.s)
      [] OTHER -> [exc |-> "TypeError"]

\* float(value.toDouble()[0])
ToDoubleFloat(v) ==
    IF v.kind = "variant" THEN [exc |-> "none", v |-> v.d]
    ELSE [exc |-> "AttributeError"]

\* str(value)
BuiltinStr(v) ==
    CASE v.kind = "str" -> v.s
      [] v.kind = "list" -> <<"[", "]">>
      [] OTHER -> <<"?">>

\* str.replace(old, new) for one-character old and new
Replace(s, old, new) == [k \in 1..Len(s) |-> IF s[k] = old THEN new ELSE s[k]]

Returned(r) == [raised |-> FALSE, v |-> r]
Raised(e) == [raised |-> TRUE, exc |-> e]

\* The same chain with the decimal comma left as it is
SafeFloatKeepComma(v) ==
    IF v = None THEN Returned(Zero)
    ELSE LET a1 == BuiltinFloat(v)
             a2 == ToDoubleFloat(v)
             a3 == ParseFloat(BuiltinStr(v))
         IN  IF a1.exc = "none" THEN Returned(a1.v)
             ELSE IF a1.exc \notin {"TypeError", "ValueError"} THEN Raised(a1.exc)
             ELSE IF a2.exc = "none" THEN Returned(a2.v)
             ELSE IF a2.exc \notin {"AttributeError", "TypeError", "ValueError"}
                  THEN Raised(a2.exc)
             ELSE IF a3.exc = "none" THEN Returned(a3.v)
             ELSE IF a3.exc \in {"ValueError", "TypeError"} THEN Returned(Zero)
             ELSE Raised(a3.exc)

\* _safe_float: None, then float(value), then value.toDouble()[0], then
\* float(str(value).replace(",", ".")), each except clause catching its types
_safe_float(v) ==
    IF v = None THEN Returned(Zero)
    ELSE LET a1 == BuiltinFloat(v)
             a2 == ToDoubleFloat(v)
             a3 == ParseFloat(Replace(BuiltinStr(v), ",", "."))
         IN  IF a1.exc = "none" THEN Returned(a1.v)
             ELSE IF a1.exc \notin {"TypeError", "ValueError"} THEN Raised(a1.exc)
             ELSE IF a2.exc = "none" THEN Returned(a2.v)
             ELSE IF a2.exc \notin {"AttributeError", "TypeError", "ValueError"}
                  THEN Raised(a2.exc)
             ELSE IF a3.exc = "none" THEN Returned(a3.v)
             ELSE IF a3.exc \in {"ValueError", "TypeError"} THEN Returned(Zero)
             ELSE Raised(a3.exc)

-----------------------------------------------------------------------------
(* Harness of _safe_float *)

Alphabet == {"3", "5", ",", ".", "-", "a", "b", "c"}
Strings == UNION {[1..n -> Alphabet] : n \in 0..MaxStrLen}
SmallRats == {Rat(7, 2), Rat(-1, 4), Zero}
RawValues ==
    {None, PyList}
    \cup {PyInt(n) : n \in {-2, 0, 3}}
    \cup {PyFloatVal(r) : r \in SmallRats}
    \cup {QVariant(r, ok) : r \in SmallRats, ok \in BOOLEAN}
    \cup {PyStr(s) : s \in Strings}

\* float_out before the call (<<0, 0>> is no rational)
NoResult == [raised |-> FALSE, v |-> <<0, 0>>]

FloatIdle == value = None /\ float_out = NoResult

SafeFloatCall ==
    /\ float_out = NoResult
    /\ float_out' = _safe_float(value)
    /\ UNCHANGED <<value, svars, pvars, dvars>>

-----------------------------------------------------------------------------
(* Output schema: prepareOutputFields *)

\* a QgsField, by its name and type
Field(name, type) == [name |-> name, type |-> type]

\* QgsFields.indexFromName / indexOf: 0-based index of the field, or -1
indexFromName(flds, name) ==
    IF \E k \in 1..Len(flds) : flds[k].name = name
    THEN (CHOOSE k \in 1..Len(flds) :
             /\ flds[k].name = name
             /\ \A j \in 1..(k - 1) : flds[j].name # name) - 1
    ELSE -1

ProrataName(f) == f \o "_prorata"

\* The loop without the indexFromName test
RECURSIVE AppendAllFields(_, _)
AppendAllFields(output_fields, fs) ==
    IF fs = <<>> THEN output_fields
    ELSE AppendAllFields(
             Append(output_fields, Field(ProrataName(Head(fs)), "Double")),
             Tail(fs))

\* prepareOutputFields: the loop over fields_to_prorate
RECURSIVE prepareOutputFields(_, _)
prepareOutputFields(output_fields, fs) ==
    IF fs = <<>> THEN output_fields
    ELSE LET field_name == ProrataName(Head(fs))
         IN  prepareOutputFields(
                 IF indexFromName(output_fields, field_name) = -1
                 THEN Append(output_fields, Field(field_name, "Double"))
                 ELSE output_fields,
                 Tail(fs))

(* Harness of prepareOutputFields *)

TargetFieldNames == {"id", "a_prorata", "b_prorata", "a_prorata_prorata"}
RequestNames == {"a", "b", "a_prorata"}

SeqsUpTo(S, n) == UNION {[1..k -> S] : k \in 0..n}
Injective(s) == \A j, k \in 1..Len(s) : j # k => s[j] # s[k]

\* a layer's QgsFields holds no two fields of one name
Schemas ==
    {[k \in 1..Len(ns) |-> Field(ns[k], "String")] :
        ns \in {s \in SeqsUpTo(TargetFieldNames, MaxSchemaLen) : Injective(s)}}
FieldLists == SeqsUpTo(RequestNames, MaxFields)

NotComputed == <<Field("?", "unset")>>

FieldsIdle ==
    /\ schema_in = <<>> /\ req_fields = <<>>
    /\ out_fields = NotComputed /\ out_again = NotComputed

PrepareCall ==
    /\ out_fields = NotComputed
    /\ out_fields' = prepareOutputFields(schema_in, req_fields)
    /\ UNCHANGED <<schema_in, req_fields, out_again, fvars, pvars, dvars>>

PrepareAgainCall ==
    /\ out_fields # NotComputed
    /\ out_again = NotComputed
    /\ out_again' = prepareOutputFields(out_fields, req_fields)
    /\ UNCHANGED <<schema_in, req_fields, out_fields, fvars, pvars, dvars>>

-----------------------------------------------------------------------------
(* Geometry: QgsGeometry on the strip of cells 0..NumCells-1.                *)
(* Cell k is the closed unit square between the borders k and k+1.           *)

Cells == 0..(NumCells - 1)

\* a geometry: null, or cells (area) plus bare borders (lines of zero area)
Geom(cs) == [null |-> FALSE, cells |-> cs, lines |-> {}]
NullGeom == [null |-> TRUE, cells |-> {}, lines |-> {}]

Borders(cs) == UNION {{k, k + 1} : k \in cs}

isEmpty(g) == g.null \/ (g.cells = {} /\ g.lines = {})
area(g) == Cardinality(g.cells)

\* QgsGeometry.intersection: the common cells, and the common borders that
\* no common cell carries
intersection(g1, g2) ==
    LET cs == g1.cells \cap g2.cells
        bs == (Borders(g1.cells) \cup g1.lines) \cap (Borders(g2.cells) \cup g2.lines)
    IN  [null |-> FALSE, cells |-> cs, lines |-> bs \ Borders(cs)]

\* QgsGeometry.intersects: the two closed sets share a point
intersects(g1, g2) ==
    /\ ~g1.null /\ ~g2.null
    /\ ~isEmpty(intersection(g1, g2))

SetMin(S) == CHOOSE x \in S : \A y \in S : x <= y
SetMax(S) == CHOOSE x \in S : \A y \in S : x >= y

\* QgsGeometry.boundingBox of a non-empty geometry, as the interval of x
boundingBox(g) ==
    LET bs == Borders(g.cells) \cup g.lines
    IN  [lo |-> SetMin(bs), hi |-> SetMax(bs)]

\* QgsRectangle.intersects (closed rectangles)
RectIntersects(r1, r2) == r1.lo <= r2.hi /\ r2.lo <= r1.hi

-----------------------------------------------------------------------------
(* Features, the spatial index and the overlay *)

Feature(fid, g, attrs) == [fid |-> fid, geometry |-> g, attrs |-> attrs]

\* buildSpatialIndex: QgsSpatialIndex.addFeature for every feature of the
\* layer; a feature without geometry is not inserted
buildSpatialIndex(lyr) ==
    {[fid |-> lyr[k].fid, box |-> boundingBox(lyr[k].geometry)] :
        k \in {j \in 1..Len(lyr) : ~isEmpty(lyr[j].geometry)}}

\* QgsSpatialIndex.intersects(rect): ids of the entries whose box meets rect
SpatialIndexIntersects(index, rect) ==
    {e.fid : e \in {x \in index : RectIntersects(x.box, rect)}}

\* The loop returning at its first match
FirstIntersectingFeature(lyr, fids, geom) ==
    LET hits == SelectSeq(lyr, LAMBDA f :
                    f.fid \in fids /\ intersects(f.geometry, geom))
    IN  IF hits = <<>> THEN <<>> ELSE <<Head(hits)>>

\* get_intersecting_features: features of the layer with an id of fids whose
\* geometry intersects geom, in layer order
get_intersecting_features(lyr, fids, geom) ==
    IF fids = {} THEN <<>>
    ELSE SelectSeq(lyr, LAMBDA f :
             /\ f.fid \in fids
             /\ ~f.geometry.null
             /\ intersects(f.geometry, geom))

\* The share taken on the target's area instead of the source's
WeightedByIntersection(field_value, a, inter_area) ==
    RMulInt(field_value, a)

\* field_value * area / inter_area
Weighted(field_value, a, inter_area) ==
    RDivInt(RMulInt(field_value, a), inter_area)

\* the inner loop: prorata_values[field] += field_value * area / inter_area
RECURSIVE AddFields(_, _, _, _, _)
AddFields(prorata_values, fs, inter, a, inter_area) ==
    IF fs = <<>> THEN prorata_values
    ELSE LET field == Head(fs)
             field_value == _safe_float(inter.attrs[field]).v
         IN  AddFields(
                 [prorata_values EXCEPT
                     ![field] = RAdd(@, Weighted(field_value, a, inter_area))],
                 Tail(fs), inter, a, inter_area)

\* computeProrata's loop over the intersecting features
RECURSIVE Accumulate(_, _, _, _)
Accumulate(prorata_values, feats, geom, fs) ==
    IF feats = <<>> THEN prorata_values
    ELSE LET inter == Head(feats)
             inter_geom == intersection(inter.geometry, geom)
             inter_area == area(inter.geometry)
             a == area(inter_geom)
             next ==
                IF inter_geom.null \/ isEmpty(inter_geom) THEN prorata_values
                ELSE IF inter_area <= 0 THEN prorata_values
                ELSE AddFields(prorata_values, fs, inter, a, inter_area)
         IN  Accumulate(next, Tail(feats), geom, fs)

Range(s) == {s[k] : k \in 1..Len(s)}

\* computeProrata returning None, or the dict prorata_values
Absent == [state |-> "absent", values |-> <<>>]
Present(vals) == [state |-> "present", values |-> vals]

\* computeProrata
computeProrata(ft, lyr, spatial_index, fs) ==
    LET geom == ft.geometry
    IN  IF geom.null \/ isEmpty(geom) THEN Absent
        ELSE LET inter_ids == SpatialIndexIntersects(spatial_index, boundingBox(geom))
                 intersecting_feats == get_intersecting_features(lyr, inter_ids, geom)
                 zeros == [f \in Range(fs) |-> Zero]
             IN  Present(Accumulate(zeros, intersecting_feats, geom, fs))

(* Harness of computeProrata *)

SourceFieldList == <<"pop", "val">>
AttrRows ==
    {[pop |-> PyInt(3), val |-> PyStr(<<"3", ",", "5">>)],
     [pop |-> None, val |-> PyFloatVal(Rat(7, 2))]}

Interval(a, b) == {k \in Cells : a <= k /\ k < b}

\* target polygons: none, empty, a left block, a middle block, the two end
\* cells (a two-part polygon), the whole strip
TargetGeoms ==
    {NullGeom, Geom({}), Geom(Interval(0, 2)), Geom(Interval(1, 4)),
     Geom({0, NumCells - 1}), Geom(Cells)}

\* source polygons: none, empty, the whole strip, the single cells 0 to 3,
\* the pairs {0, 1} and {1, 2}
SourceGeoms ==
    {NullGeom, Geom({}), Geom(Cells)}
    \cup {Geom({a}) : a \in {0, 1, 2, 3}}
    \cup {Geom({a, a + 1}) : a \in {0, 1}}

\* layers of n features, ids in enumeration order
LayersOf(geoms, n) ==
    UNION {{[k \in 1..m |-> Feature(k - 1, gs[k], rs[k])] :
               gs \in [1..m -> geoms], rs \in [1..m -> AttrRows]} : m \in 0..n}

FieldPrefixes ==
    {SubSeq(SourceFieldList, 1, k) :
        k \in 0..(IF MaxFields < Len(SourceFieldList) THEN MaxFields
                  ELSE Len(SourceFieldList))}

NotRun == [state |-> "not run", values |-> <<>>]

ProrataIdle ==
    /\ feat = Feature(0, NullGeom, <<>>) /\ layer = <<>>
    /\ fields = <<>> /\ prorata = NotRun

ComputeProrataCall ==
    /\ prorata.state = "not run"
    /\ prorata' = computeProrata(feat, layer, buildSpatialIndex(layer), fields)
    /\ UNCHANGED <<feat, layer, fields, fvars, svars, dvars>>

-----------------------------------------------------------------------------
(* The run of processAlgorithm *)

\* createProrataFeature: the target's geometry, its attributes padded with
\* None up to the output schema, each <field>_prorata slot set to
\* round(value, 5)
createProrataFeature(ft, output_fields, prorata_values) ==
    LET attrs == ft.attrs
        attrs_extended ==
            [k \in 1..(IF Len(output_fields) > Len(attrs)
                       THEN Len(output_fields) ELSE Len(attrs)) |->
                IF k <= Len(attrs) THEN attrs[k] ELSE None]
        written(k) ==
            {f \in DOMAIN prorata_values :
                indexFromName(output_fields, ProrataName(f)) = k - 1}
    IN  [geometry |-> ft.geometry,
         attributes |->
            [k \in DOMAIN attrs_extended |->
                IF written(k) # {}
                THEN PyFloatVal(PyRoundDigits(
                         prorata_values[CHOOSE f \in written(k) : TRUE], 5))
                ELSE attrs_extended[k]]]

\* the feedback object: absent (None), or present with the calls that raise
NoFeedback ==
    [present |-> FALSE, pushInfoRaises |-> FALSE, setProgressRaises |-> FALSE,
     isCanceledRaises |-> FALSE]
FeedbackObject(p, s, c) ==
    [present |-> TRUE, pushInfoRaises |-> p, setProgressRaises |-> s,
     isCanceledRaises |-> c]

\* the call _safe_push_info(feedback, message), with what became of it
Info(msg, n) ==
    [msg |-> msg, n |-> n,
     delivered |-> feedback.present /\ ~feedback.pushInfoRaises]

\* The cancellation check never answering True
NeverCanceled(fb, flag) == FALSE

\* _safe_is_canceled
_safe_is_canceled(fb, flag) ==
    IF ~fb.present THEN FALSE
    ELSE IF fb.isCanceledRaises THEN FALSE
    ELSE flag

\* The loop going on after a poll that answered True
ContinueAfterPoll(answer) == "work"

\* if self._safe_is_canceled(feedback): break
AfterPoll(answer) == IF answer THEN "finish" ELSE "work"

\* The three checks without the test of empty layers
ConfigErrorNoEmptyTest(inp, inter, sinkok) ==
    IF ~inp.loaded \/ ~inter.loaded THEN "load"
    ELSE IF ~sinkok THEN "sink"
    ELSE "none"

\* the QgsProcessingException processAlgorithm raises before its loop:
\* a layer is None, a layer has no feature, or the sink is None
ConfigError(inp, inter, sinkok) ==
    IF ~inp.loaded \/ ~inter.loaded THEN "load"
    ELSE IF inp.feats = <<>> \/ inter.feats = <<>> THEN "empty"
    ELSE IF ~sinkok THEN "sink"
    ELSE "none"

\* The percentage counting from 1 twice
ProgressOffByOne(idx, total_features) ==
    PyRound(Rat((idx + 2) * 100, total_features))

\* progress_percent = round((i + 1) / total_features * 100)
progress_percent(idx, total_features) ==
    PyRound(Rat((idx + 1) * 100, total_features))

\* The loop writing a record for every target
NeverSkip(prorata_values) == FALSE

\* if prorata_values is None: continue
SkipTarget(prorata_values) == prorata_values.state = "absent"

TargetSchema == <<Field("id", "String")>>
OutputFields == prepareOutputFields(TargetSchema, fields_to_prorate)
Handle == [raised |-> FALSE, v |-> "dest_id"]
NoOutcome == [raised |-> FALSE, v |-> "running"]

TotalFeatures == Len(input_layer.feats)

Setup ==
    /\ pc = "setup"
    /\ LET err == ConfigError(input_layer, inter_layer, sink_ok)
       IN  /\ infos' = IF err \in {"load", "empty"} THEN infos
                       ELSE infos \o <<Info("fields", 0), Info("index", 0)>>
           /\ IF err # "none"
              THEN /\ pc' = "failed"
                   /\ result' = [raised |-> TRUE, exc |-> "QgsProcessingException",
                                 why |-> err]
              ELSE /\ pc' = "poll"
                   /\ result' = result
    /\ nb_entites' = 0
    /\ last_progress' = -1
    /\ i' = 0
    /\ UNCHANGED <<input_layer, inter_layer, fields_to_prorate, feedback, sink_ok,
                   canceled, sink, progress_log, polls, started>>
    /\ UNCHANGED <<fvars, svars, pvars>>

\* the for statement fetches target i and the cancellation flag is polled
Poll ==
    /\ pc = "poll"
    /\ i < TotalFeatures
    /\ LET answer == _safe_is_canceled(feedback, canceled)
       IN  /\ polls' = Append(polls, answer)
           /\ pc' = AfterPoll(answer)
    /\ UNCHANGED <<input_layer, inter_layer, fields_to_prorate, feedback, sink_ok,
                   canceled, i, nb_entites, last_progress, sink, infos,
                   progress_log, started, result>>
    /\ UNCHANGED <<fvars, svars, pvars>>

\* the for statement finds the enumeration exhausted
Exhausted ==
    /\ pc = "poll"
    /\ i = TotalFeatures
    /\ pc' = "finish"
    /\ UNCHANGED <<input_layer, inter_layer, fields_to_prorate, feedback, sink_ok,
                   canceled, i, nb_entites, last_progress, sink, infos,
                   progress_log, polls, started, result>>
    /\ UNCHANGED <<fvars, svars, pvars>>

\* computeProrata, then either continue or createProrataFeature,
\* sink.addFeature and nb_entites += 1
Work ==
    /\ pc = "work"
    /\ started' = started \cup {i}
    /\ LET ft == input_layer.feats[i + 1]
           prorata_values ==
              computeProrata(ft, inter_layer.feats,
                             buildSpatialIndex(inter_layer.feats), fields_to_prorate)
       IN  IF SkipTarget(prorata_values)
           THEN /\ i' = i + 1
                /\ pc' = "poll"
                /\ UNCHANGED <<sink, nb_entites>>
           ELSE /\ sink' = Append(sink, createProrataFeature(
                                            ft, OutputFields, prorata_values.values))
                /\ nb_entites' = nb_entites + 1
                /\ pc' = "report"
                /\ i' = i
    /\ UNCHANGED <<input_layer, inter_layer, fields_to_prorate, feedback, sink_ok,
                   canceled, last_progress, infos, progress_log, polls, result>>
    /\ UNCHANGED <<fvars, svars, pvars>>

\* feedback.setProgress, the decile line, the finalisation line
Report ==
    /\ pc = "report"
    /\ LET pct == progress_percent(i, TotalFeatures)
           decile == pct % 10 = 0 /\ pct # last_progress
           final == i + 1 = TotalFeatures
       IN  /\ progress_log' = IF feedback.present THEN Append(progress_log, pct)
                              ELSE progress_log
           /\ IF feedback.present /\ feedback.setProgressRaises
              THEN /\ pc' = "failed"
                   /\ result' = [raised |-> TRUE, exc |-> "RuntimeError",
                                 why |-> "setProgress"]
                   /\ UNCHANGED <<infos, last_progress, i>>
              ELSE /\ infos' = infos
                               \o (IF decile THEN <<Info("decile", pct)>> ELSE <<>>)
                               \o (IF final THEN <<Info("finalisation", 0)>> ELSE <<>>)
                   /\ last_progress' = IF decile THEN pct ELSE last_progress
                   /\ i' = i + 1
                   /\ pc' = "poll"
                   /\ result' = result
    /\ UNCHANGED <<input_layer, inter_layer, fields_to_prorate, feedback, sink_ok,
                   canceled, nb_entites, sink, polls, started>>
    /\ UNCHANGED <<fvars, svars, pvars>>

\* after the loop: the summary line and return {OUTPUT: dest_id}
Finish ==
    /\ pc = "finish"
    /\ infos' = Append(infos, Info("summary", nb_entites))
    /\ result' = Handle
    /\ pc' = "done"
    /\ UNCHANGED <<input_layer, inter_layer, fields_to_prorate, feedback, sink_ok,
                   canceled, i, nb_entites, last_progress, sink, progress_log,
                   polls, started>>
    /\ UNCHANGED <<fvars, svars, pvars>>

\* the user cancels: the feedback's flag is set, at any moment of the run
Cancel ==
    /\ pc \in {"setup", "poll", "work", "report"}
    /\ feedback.present
    /\ ~canceled
    /\ canceled' = TRUE
    /\ UNCHANGED <<pc, input_layer, inter_layer, fields_to_prorate, feedback,
                   sink_ok, i, nb_entites, last_progress, sink, infos,
                   progress_log, polls, started, result>>
    /\ UNCHANGED <<fvars, svars, pvars>>

(* Inputs of the run *)

RunTargetGeoms == {NullGeom, Geom({}), Geom(Interval(0, 2))}
TargetLayers ==
    UNION {{[k \in 1..m |-> Feature(k - 1, gs[k], <<PyInt(k - 1)>>)] :
               gs \in [1..m -> RunTargetGeoms]} : m \in 0..MaxTargets}
RunSources ==
    <<Feature(0, Geom(Interval(0, 1)),
              [pop |-> PyInt(3), val |-> PyStr(<<"3", ",", "5">>)]),
      Feature(1, Geom(Interval(1, 3)),
              [pop |-> PyInt(3), val |-> PyFloatVal(Rat(7, 2))])>>
NotLoaded == [loaded |-> FALSE, feats |-> <<>>]
Loaded(feats) == [loaded |-> TRUE, feats |-> feats]
Feedbacks ==
    {NoFeedback, FeedbackObject(FALSE, FALSE, FALSE), FeedbackObject(TRUE, FALSE, FALSE),
     FeedbackObject(FALSE, TRUE, FALSE), FeedbackObject(FALSE, FALSE, TRUE),
     FeedbackObject(TRUE, TRUE, TRUE)}

RunStart ==
    /\ pc = "setup" /\ canceled = FALSE /\ i = 0 /\ nb_entites = 0
    /\ last_progress = -1 /\ sink = <<>> /\ infos = <<>> /\ progress_log = <<>>
    /\ polls = <<>> /\ started = {} /\ result = NoOutcome

RunIdle ==
    /\ RunStart
    /\ input_layer = NotLoaded /\ inter_layer = NotLoaded
    /\ fields_to_prorate = <<>> /\ feedback = NoFeedback /\ sink_ok = FALSE

-----------------------------------------------------------------------------
(* Specifications *)

InitFloat ==
    /\ value \in RawValues /\ float_out = NoResult
    /\ FieldsIdle /\ ProrataIdle /\ RunIdle
NextFloat == SafeFloatCall
SpecFloat == InitFloat /\ [][NextFloat]_vars

InitFields ==
    /\ schema_in \in Schemas /\ req_fields \in FieldLists
    /\ out_fields = NotComputed /\ out_again = NotComputed
    /\ FloatIdle /\ ProrataIdle /\ RunIdle
NextFields == PrepareCall \/ PrepareAgainCall
SpecFields == InitFields /\ [][NextFields]_vars

InitProrata ==
    /\ feat \in {Feature(0, g, <<>>) : g \in TargetGeoms}
    /\ layer \in LayersOf(SourceGeoms, MaxSources)
    /\ fields \in FieldPrefixes
    /\ prorata = NotRun
    /\ FloatIdle /\ FieldsIdle /\ RunIdle
NextProrata == ComputeProrataCall
SpecProrata == InitProrata /\ [][NextProrata]_vars

Init ==
    /\ RunStart
    /\ input_layer \in {NotLoaded} \cup {Loaded(t) : t \in TargetLayers}
    /\ inter_layer \in {NotLoaded, Loaded(<<>>), Loaded(RunSources)}
    /\ fields_to_prorate = SourceFieldList
    /\ feedback \in Feedbacks
    /\ sink_ok \in BOOLEAN
    /\ FloatIdle /\ FieldsIdle /\ ProrataIdle
Next == Setup \/ Poll \/ Exhausted \/ Work \/ Report \/ Finish \/ Cancel
Spec == Init /\ [][Next]_vars

-----------------------------------------------------------------------------
(* Properties of _safe_float (SpecFloat) *)

FloatCalled == float_out.raised \/ float_out.v # <<0, 0>>

\* the number the coercion contract gives for each kind of raw value
ContractFloat(v) ==
    CASE v.kind = "none" -> Zero
      [] v.kind = "int" -> <<v.v, 1>>
      [] v.kind = "float" -> v.v
      [] v.kind = "variant" -> v.d
      [] v.kind = "str" ->
            LET parsed == ParseFloat(Replace(v.s, ",", "."))
            IN  IF parsed.exc = "none" THEN parsed.v ELSE Zero
      [] OTHER -> Zero

\* C10: _safe_float never raises and returns 0.0 for None, the cast of an
\* int or float, the double of a variant, the number a string reads as once
\* its decimal comma is a point, and 0.0 otherwise; None, "3,5", 3.5 and
\* "abc" give 0.0, 3.5, 3.5 and 0.0.
C10_SafeFloatTotal ==
    FloatCalled =>
        /\ ~float_out.raised
        /\ float_out.v = ContractFloat(value)
        /\ value = None => float_out.v = <<0, 1>>
        /\ value = PyStr(<<"3", ",", "5">>) => float_out.v = <<7, 2>>
        /\ value = PyFloatVal(<<7, 2>>) => float_out.v = <<7, 2>>
        /\ value = PyStr(<<"a", "b", "c">>) => float_out.v = <<0, 1>>

C10_Witness ==
    /\ FloatCalled
    /\ value = PyStr(<<"3", ",", "5">>)
    /\ float_out = Returned(<<7, 2>>)

-----------------------------------------------------------------------------
(* Properties of prepareOutputFields (SpecFields) *)

CountName(flds, name) == Cardinality({k \in 1..Len(flds) : flds[k].name = name})

\* C7: the result is the target's fields followed by the missing
\* <field>_prorata fields, each requested field has exactly one field of its
\* _prorata name, and preparing the result again changes nothing.
C7_SchemaExtension ==
    out_fields # NotComputed =>
        /\ Len(out_fields) >= Len(schema_in)
        /\ SubSeq(out_fields, 1, Len(schema_in)) = schema_in
        /\ \A k \in (Len(schema_in) + 1)..Len(out_fields) :
              /\ out_fields[k].type = "Double"
              /\ CountName(schema_in, out_fields[k].name) = 0
              /\ \E j \in 1..Len(req_fields) :
                    out_fields[k].name = req_fields[j] \o "_prorata"
        /\ \A j \in 1..Len(req_fields) :
              CountName(out_fields, req_fields[j] \o "_prorata") = 1
        /\ out_again # NotComputed => out_again = out_fields

C7_Witness ==
    /\ out_again # NotComputed
    /\ Len(req_fields) = 2
    /\ \E j \in 1..Len(req_fields) :
          CountName(schema_in, req_fields[j] \o "_prorata") = 1
    /\ Len(out_fields) = Len(schema_in) + 1

-----------------------------------------------------------------------------
(* Properties of computeProrata (SpecProrata) *)

ProrataRan == prorata.state # "not run"

\* closed polygons sharing at least a point: a cell, or a border of cells
SharePoint(cs1, cs2) ==
    \E a \in cs1, b \in cs2 : a - b \in {-1, 0, 1}

Qualifies(src) ==
    /\ ~src.geometry.null
    /\ SharePoint(src.geometry.cells, feat.geometry.cells)
    /\ Cardinality(src.geometry.cells) > 0

\* the sum of value * area(source /\ target) / area(source) over the
\* qualifying sources among the first n of the layer
RECURSIVE ContractSum(_, _)
ContractSum(f, n) ==
    IF n = 0 THEN Zero
    ELSE LET src == layer[n]
             share == Rat(Cardinality(src.geometry.cells \cap feat.geometry.cells),
                          Cardinality(src.geometry.cells))
         IN  IF Qualifies(src)
             THEN RAdd(ContractSum(f, n - 1),
                       RMul(ContractFloat(src.attrs[f]), share))
             ELSE ContractSum(f, n - 1)

\* C1: for a target with non-empty geometry the result is present, its keys
\* are the requested fields, and each value is the sum over the qualifying
\* sources of toFloat(attribute) * area(source /\ target) / area(source);
\* with no qualifying source every value is 0.0.
C1_ProrataSum ==
    (ProrataRan /\ ~isEmpty(feat.geometry)) =>
        /\ prorata.state = "present"
        /\ DOMAIN prorata.values = Range(fields)
        /\ \A f \in Range(fields) : prorata.values[f] = ContractSum(f, Len(layer))
        /\ (\A k \in 1..Len(layer) : ~Qualifies(layer[k])) =>
              \A f \in Range(fields) : prorata.values[f] = <<0, 1>>

\* a source partly inside the target counts for its share while another one,
\* inside the target's bounding box only, counts for nothing
C1_Witness ==
    /\ ProrataRan /\ prorata.state = "present"
    /\ "pop" \in Range(fields)
    /\ \E k \in 1..Len(layer) :
          /\ Cardinality(layer[k].geometry.cells \cap feat.geometry.cells) = 1
          /\ Cardinality(layer[k].geometry.cells) = 2
          /\ layer[k].attrs.pop = PyInt(3)
    /\ \E k \in 1..Len(layer) :
          /\ layer[k].geometry.cells # {}
          /\ ~SharePoint(layer[k].geometry.cells, feat.geometry.cells)
          /\ RectIntersects(boundingBox(layer[k].geometry),
                            boundingBox(feat.geometry))
          /\ layer[k].attrs.pop = PyInt(3)
    /\ prorata.values["pop"] = <<3, 2>>

\* the sources are N >= 1 polygons of positive area, pairwise disjoint, whose
\* union is the target
Partitioned ==
    /\ ProrataRan
    /\ feat.geometry.cells # {}
    /\ Len(layer) >= 1
    /\ \A k \in 1..Len(layer) :
          ~layer[k].geometry.null /\ layer[k].geometry.cells # {}
    /\ \A j, k \in 1..Len(layer) :
          j # k => layer[j].geometry.cells \cap layer[k].geometry.cells = {}
    /\ UNION {layer[k].geometry.cells : k \in 1..Len(layer)} = feat.geometry.cells

ConstantField(f) ==
    \A k \in 1..Len(layer) :
        ContractFloat(layer[k].attrs[f]) = ContractFloat(layer[1].attrs[f])

\* C2 as stated: under a partition of the target by N sources with the same
\* value v of a field, the prorata of that field is v.
C2_PartitionGivesV ==
    Partitioned =>
        \A f \in Range(fields) :
            ConstantField(f) =>
                prorata.values[f] = ContractFloat(layer[1].attrs[f])

\* C2 amended: under such a partition the prorata of the field is N * v.
C2_PartitionGivesNTimesV ==
    Partitioned =>
        /\ prorata.state = "present"
        /\ \A f \in Range(fields) :
              ConstantField(f) =>
                  prorata.values[f] =
                      RMulInt(ContractFloat(layer[1].attrs[f]), Len(layer))

C2_Witness ==
    /\ Partitioned
    /\ Len(layer) = 2
    /\ fields = <<"pop", "val">>
    /\ ConstantField("val")
    /\ prorata.values["val"] = <<7, 1>>

-----------------------------------------------------------------------------
(* Properties of the run (Spec) *)

Broke == \E k \in 1..Len(polls) : polls[k]
HasGeometry(f) == ~f.geometry.null /\ f.geometry.cells # {}
NonEmptyTargets == SelectSeq(input_layer.feats, HasGeometry)
CountInfos(msg) == Cardinality({k \in 1..Len(infos) : infos[k].msg = msg})
SummaryGiven ==
    /\ infos # <<>>
    /\ infos[Len(infos)].msg = "summary"
    /\ infos[Len(infos)].n = Len(sink)

\* C3: a run that exhausts the targets without cancellation leaves in the
\* sink one record per target with non-empty geometry, in target order, none
\* for a target with null or empty geometry, and reports as success counter
\* the number of records written.
C3_OneRecordPerTarget ==
    (pc = "done" /\ ~Broke) =>
        /\ Len(sink) = Len(NonEmptyTargets)
        /\ \A k \in 1..Len(sink) :
              /\ sink[k].geometry = NonEmptyTargets[k].geometry
              /\ sink[k].attributes[1] = NonEmptyTargets[k].attrs[1]
        /\ nb_entites = Len(sink)
        /\ SummaryGiven
        /\ result = Handle

C3_Witness ==
    /\ pc = "done" /\ ~Broke
    /\ Len(sink) = 2
    /\ Len(input_layer.feats) = 3
    /\ input_layer.feats[2].geometry.null
    /\ infos[Len(infos)].n = 2

PolledOncePerTarget ==
    /\ \A k \in 1..(Len(polls) - 1) : ~polls[k]
    /\ Len(polls) =
          IF pc \in {"work", "report"} \/ Broke
             \/ (pc = "failed" /\ result.exc = "RuntimeError")
          THEN i + 1 ELSE i
    /\ started = {k - 1 : k \in {j \in 1..Len(polls) : ~polls[j]}}
                 \ (IF pc = "work" THEN {i} ELSE {})

CancelState ==
    /\ PolledOncePerTarget
    /\ Broke => pc \in {"finish", "done"}
    /\ pc = "report" =>
          /\ sink # <<>>
          /\ sink[Len(sink)].attributes[1] = input_layer.feats[i + 1].attrs[1]
    /\ (pc = "done" /\ Broke) =>
          /\ result = Handle
          /\ nb_entites = Len(sink)
          /\ SummaryGiven

CancelStep ==
    /\ Len(sink') >= Len(sink)
    /\ SubSeq(sink', 1, Len(sink)) = sink
    /\ Broke => sink' = sink
    /\ (pc = "work" /\ pc' # "work" /\ HasGeometry(input_layer.feats[i + 1])) =>
          /\ pc' = "report"
          /\ Len(sink') = Len(sink) + 1

\* C4: the flag is polled once before each target; after the first poll that
\* answers true no record is appended and the records written stay as they
\* are; a target whose work started is worked to its end whatever the flag
\* becomes; the run then gives the summary and returns the output handle.
C4_CooperativeCancel == [][CancelStep]_vars /\ []CancelState

C4_Witness ==
    /\ pc = "done" /\ Broke
    /\ Len(sink) = 1
    /\ Len(NonEmptyTargets) = 3
    /\ result = Handle

\* C5: no call on the feedback object that raises makes the run fail.
C5_FeedbackNeverFails ==
    result.raised => result.exc = "QgsProcessingException"

ConfigBad ==
    \/ ~input_layer.loaded \/ ~inter_layer.loaded
    \/ input_layer.feats = <<>> \/ inter_layer.feats = <<>>
    \/ ~sink_ok

\* C6: when a layer fails to load, a layer has no feature or the sink cannot
\* be created, the run raises a processing exception, works on no target,
\* appends no record and returns no handle.
C6_ConfigAborts ==
    (ConfigBad /\ pc # "setup") =>
        /\ pc = "failed"
        /\ result.raised /\ result.exc = "QgsProcessingException"
        /\ sink = <<>> /\ polls = <<>> /\ started = {} /\ progress_log = <<>>
        /\ nb_entites = 0

C6_Witness ==
    /\ pc = "failed"
    /\ ~sink_ok
    /\ input_layer.loaded /\ Len(input_layer.feats) = 2
    /\ inter_layer.loaded /\ inter_layer.feats # <<>>
    /\ result.raised

\* C8: every progress value reported is an integer of 0..100 and the values
\* reported never decrease.
C8_ProgressMonotone ==
    /\ \A k \in 1..Len(progress_log) : progress_log[k] \in 0..100
    /\ \A k \in 1..(Len(progress_log) - 1) : progress_log[k] <= progress_log[k + 1]

C8_Witness ==
    /\ Len(progress_log) = 2
    /\ Len(input_layer.feats) = 3
    /\ ~HasGeometry(input_layer.feats[2])
    /\ progress_log[2] = 100

\* C9: a run that exhausts the targets without cancellation has given the
\* finalisation message exactly once, whatever the targets' geometries.
C9_FinalisationOnce ==
    (pc = "done" /\ ~Broke) => CountInfos("finalisation") = 1

====
